---- MODULE Spec2Model ----
(***************************************************************************)
(* foraker: a controller for Express/Connect middleware.  The model holds  *)
(* the filter registry built by the filter DSL while a controller is       *)
(* constructed, and the execution of one handler chain (before filters,    *)
(* the action, after filters) with its two styles of completion: a         *)
(* returned promise, or a call of the continuation handed to the handler.  *)
(*                                                                         *)
(* The repository holds two variants of the controller; both are modelled  *)
(* and the variable `variant` says which one an instance runs:             *)
(*   "chain"  : action / _buildHandlers / _executeHandlerChain /           *)
(*              _executeHandler, with strictAsyncMode and isResSent        *)
(*   "inline" : action with the whole chain inside the middleware          *)
(***************************************************************************)
EXTENDS Naturals, Sequences, FiniteSets

\* ------------------------------------------------------------- bounds
\* DSL calls executed while one controller is constructed
MaxCalls == 2
\* calls of the continuation trigger made by the handlers of one dispatch
MaxTrigger == 1
\* levels of the subclass hierarchy below the base Controller
MaxLevels == 2
\* DSL calls executed while one controller is constructed, where every handler
\* only returns a promise
MaxRegistryCalls == 3
\* DSL calls a construction makes in SpecLive
MaxLiveCalls == 1

\* ------------------------------------------------------------- inputs
\* names of filter methods, and of actions
FilterNames == {"f", "g"}
Actions == {"x", "y"}
\* a filter passed as a function reference instead of a name
FnRef == "<function>"
Stages == {"before", "after"}

\* A value of options.only / options.except as the caller passes it:
\* undefined, a string, or an array of strings.
Undef == [k |-> "undef", s |-> "", a |-> <<>>]
Str(s) == [k |-> "str", s |-> s, a |-> <<>>]
Arr(a) == [k |-> "arr", s |-> "", a |-> a]
NoOptions == [only |-> Undef, except |-> Undef]

\* the DSL calls the filters() procedures are made of
Call(kind, name, options) == [kind |-> kind, name |-> name, options |-> options]
Calls ==
  { Call("before", "f", NoOptions),
    Call("before", "g", [only |-> Str("x"), except |-> Undef]),
    Call("after", "g", NoOptions),
    Call("after", "f", [only |-> Undef, except |-> Arr(<<"x">>)]),
    Call("before", "f", [only |-> Str("x"), except |-> Arr(<<"y">>)]),
    Call("after", "g", [only |-> Arr(<<>>), except |-> Str("x")]),
    Call("before", FnRef, NoOptions),
    Call("skipBefore", "f", NoOptions),
    Call("skipBefore", "f", [only |-> Arr(<<"x">>), except |-> Undef]),
    Call("skipBefore", "g", [only |-> Undef, except |-> Arr(<<"y">>)]),
    Call("skipAfter", "g", [only |-> Str("x"), except |-> Undef]),
    Call("skipBefore", "g", [only |-> Arr(<<"x">>), except |-> Arr(<<"y">>)]) }

\* error values
ErrNotString == "Filter names must be strings"
ErrConflict == "You cannot supply both 'only' and 'except' options to a filter"
ErrNotPresent == "You are trying to skip a filter that is not present"
ErrNoAction == "action is not defined on this controller"
ErrNoFilter == "filter is not defined"
ErrTypeError == "TypeError: undefined has no method call"
ErrDual == "returned a Promise *and* called continue"
ErrStrict == "did not return a promise or accept a next() callback"
ErrIncomplete == "Incomplete action"
Cancellation == "CancellationError"
\* what handlers throw, pass to the trigger, reject with
Ethrow == "thrown by handler"
Etrig == "passed to trigger"
Erej == "rejection reason"
NoArg == "<no argument>"

\* ------------------------------------------------- JavaScript helpers
\* truthiness of an option value: undefined and '' are falsy, every array
\* (the empty one too) is truthy
Truthy(v) == (v.k = "str" /\ v.s # "") \/ v.k = "arr"

\* ensure-array: undefined -> [], an array -> itself, anything else -> [it]
EnsureArray(v) ==
  IF v.k = "undef" THEN <<>>
  ELSE IF v.k = "arr" THEN v.a
  ELSE <<v.s>>

\* lodash contains(array, value)
Contains(arr, v) == \E i \in 1..Len(arr) : arr[i] = v

\* a findWhere that matches on the name alone
FindWhereName(fs, name, stage) ==
  IF \E i \in 1..Len(fs) : fs[i].name = name
  THEN CHOOSE i \in 1..Len(fs) :
         fs[i].name = name /\ \A j \in 1..(i-1) : fs[j].name # name
  ELSE 0

\* lodash findWhere(filters, { name, stage }): index of the first match, 0 if none
FindWhere(fs, name, stage) ==
  IF \E i \in 1..Len(fs) : fs[i].name = name /\ fs[i].stage = stage
  THEN CHOOSE i \in 1..Len(fs) :
         /\ fs[i].name = name /\ fs[i].stage = stage
         /\ \A j \in 1..(i-1) : ~(fs[j].name = name /\ fs[j].stage = stage)
  ELSE 0

\* --------------------------------------------------------- filter DSL
\* a _filter that does not look for conflicting options
DslFilterUnchecked(fs, name, stage, options) ==
  IF name = FnRef
  THEN [ok |-> FALSE, err |-> ErrNotString, filters |-> fs]
  ELSE [ok |-> TRUE, err |-> "",
        filters |-> Append(fs, [name |-> name, stage |-> stage,
                                only |-> EnsureArray(options.only),
                                except |-> EnsureArray(options.except),
                                skip |-> FALSE])]

\* a _filter that records the except option in the only list as well
DslFilterMirrored(fs, name, stage, options) ==
  IF name = FnRef
  THEN [ok |-> FALSE, err |-> ErrNotString, filters |-> fs]
  ELSE IF Truthy(options.only) /\ Truthy(options.except)
  THEN [ok |-> FALSE, err |-> ErrConflict, filters |-> fs]
  ELSE [ok |-> TRUE, err |-> "",
        filters |-> Append(fs, [name |-> name, stage |-> stage,
                                only |-> EnsureArray(options.only)
                                           \o EnsureArray(options.except),
                                except |-> EnsureArray(options.except),
                                skip |-> FALSE])]

\* _filter(name, stage, options): [ok, err, filters]
DslFilter(fs, name, stage, options) ==
  IF name = FnRef
  THEN [ok |-> FALSE, err |-> ErrNotString, filters |-> fs]
  ELSE IF Truthy(options.only) /\ Truthy(options.except)
  THEN [ok |-> FALSE, err |-> ErrConflict, filters |-> fs]
  ELSE [ok |-> TRUE, err |-> "",
        filters |-> Append(fs, [name |-> name, stage |-> stage,
                                only |-> EnsureArray(options.only),
                                except |-> EnsureArray(options.except),
                                skip |-> FALSE])]

\* a _skip that sets the skip flag whatever its options are
DslSkipAlways(fs, name, stage, options) ==
  LET i == FindWhere(fs, name, stage)
  IN IF i = 0
     THEN [ok |-> FALSE, err |-> ErrNotPresent, filters |-> fs]
     ELSE [ok |-> TRUE, err |-> "", filters |-> [fs EXCEPT ![i].skip = TRUE]]

\* a _skip that, called without options, takes the declaration out of the list
DslSkipRemoving(fs, name, stage, options) ==
  LET i == FindWhere(fs, name, stage)
      only == EnsureArray(options.only)
      except == EnsureArray(options.except)
  IN IF i = 0
     THEN [ok |-> FALSE, err |-> ErrNotPresent, filters |-> fs]
     ELSE [ok |-> TRUE, err |-> "",
           filters |->
             IF Len(only) > 0
             THEN [fs EXCEPT ![i].except = fs[i].except \o only]
             ELSE IF Len(except) > 0
             THEN [fs EXCEPT ![i].only = fs[i].only \o except]
             ELSE SubSeq(fs, 1, i - 1) \o SubSeq(fs, i + 1, Len(fs))]

\* _skip(name, stage, options): [ok, err, filters]
DslSkip(fs, name, stage, options) ==
  LET i == FindWhere(fs, name, stage)
      only == EnsureArray(options.only)
      except == EnsureArray(options.except)
  IN IF i = 0
     THEN [ok |-> FALSE, err |-> ErrNotPresent, filters |-> fs]
     ELSE [ok |-> TRUE, err |-> "",
           filters |->
             IF Len(only) > 0
             THEN [fs EXCEPT ![i].except = fs[i].except \o only]
             ELSE IF Len(except) > 0
             THEN [fs EXCEPT ![i].only = fs[i].only \o except]
             ELSE [fs EXCEPT ![i].skip = TRUE]]

\* before / after / skipBefore / skipAfter
DslCall(fs, kind, name, options) ==
  CASE kind = "before" -> DslFilter(fs, name, "before", options)
    [] kind = "after" -> DslFilter(fs, name, "after", options)
    [] kind = "skipBefore" -> DslSkip(fs, name, "before", options)
    [] kind = "skipAfter" -> DslSkip(fs, name, "after", options)

\* ------------------------------------------------ selecting the chain
\* _filtersForAction without its test of the except list
FilterAppliesIgnoringExcept(filter, actionName, stage) ==
  /\ filter.stage = stage
  /\ ~filter.skip
  /\ (Len(filter.only) = 0 \/ Contains(filter.only, actionName))

\* the predicate of _filtersForAction
FilterApplies(filter, actionName, stage) ==
  /\ filter.stage = stage
  /\ ~filter.skip
  /\ ~Contains(filter.except, actionName)
  /\ (Len(filter.only) = 0 \/ Contains(filter.only, actionName))

RECURSIVE FiltersForActionFrom(_, _, _, _)
FiltersForActionFrom(fs, i, actionName, stage) ==
  IF i > Len(fs) THEN <<>>
  ELSE (IF FilterApplies(fs[i], actionName, stage) THEN <<fs[i].name>> ELSE <<>>)
       \o FiltersForActionFrom(fs, i + 1, actionName, stage)

\* _filtersForAction(actionName, stage): pluck(filters.filter(...), 'name')
FiltersForAction(fs, actionName, stage) ==
  FiltersForActionFrom(fs, 1, actionName, stage)

\* _buildHandlers concatenating the action ahead of the before filters
BuildHandlersActionFirst(fs, actionName) ==
  <<actionName>>
    \o FiltersForAction(fs, actionName, "before")
    \o FiltersForAction(fs, actionName, "after")

\* _buildHandlers(actionName)
BuildHandlers(fs, actionName) ==
  FiltersForAction(fs, actionName, "before")
    \o <<actionName>>
    \o FiltersForAction(fs, actionName, "after")

\* ------------------------------------------------------------- state
VARIABLES
  variant,          \* "chain" or "inline": which controller the instance runs
  strictAsyncMode,  \* the controller's strictAsyncMode property
  levels,           \* levels[i]: does level i of the hierarchy define filters()?
                    \* level 1 is the instance's own class, the last one extends
                    \* the base Controller
  methods,          \* name -> how the instance resolves this[name]
  pc,               \* "build", "ctorThrew", "ready", "dispatched"
  filters,          \* the registry: dsl.filters = this._filters
  declLevel,        \* declLevel[i]: the level whose filters() pushed filters[i]
  todo,             \* _buildFilters: the levels whose filters() is still to run
  script,           \* level -> the DSL calls its filters() procedure makes
  pos,              \* calls made so far by the run of filters() in progress
  ctorErr,          \* the error the constructor threw
  lastCall,         \* the DSL call made last while the instance is constructed
  actionName,       \* the action being dispatched
  handlers,         \* the handler chain of the dispatch
  inv,              \* one record per handler invoked so far
  sentBy,           \* 0: response not sent; i: sent when i handlers had been
                    \* invoked, the i-th one after or while it ran
  ntrig,            \* calls of the continuation trigger so far
  nextCalls,        \* calls of the framework's next so far: [arg, by]
  chain,            \* state of the promise chain of the dispatch
  chainErr,         \* its rejection reason
  thrown,           \* error thrown synchronously to the caller of the middleware
  uncaught          \* errors thrown into callers outside of any promise chain

ctorVars == <<filters, declLevel, todo, script, pos, ctorErr, lastCall>>
classVars == <<variant, strictAsyncMode, levels>>
dispVars == <<actionName, handlers, inv, sentBy, ntrig, nextCalls, chain,
              chainErr, thrown, uncaught>>
vars == <<variant, strictAsyncMode, levels, methods, pc, filters, declLevel,
          todo, script, pos, ctorErr, lastCall, actionName, handlers, inv,
          sentBy, ntrig, nextCalls, chain, chainErr, thrown, uncaught>>

Names == FilterNames \cup Actions
\* What the lookups made so far have found of this[name].  where: "absent"
\* (undefined), "own" (a function the instance's own class defines),
\* "inherited" (a function of an ancestor), "defined" (a function, read
\* without asking where it is defined); short: is handler.length < 3? ("yes",
\* "no").
\* "unknown" until the instance first reads it.
Unknown == [where |-> "unknown", short |-> "unknown"]
Wheres == {"absent", "own", "inherited"}

\* ------------------------------------------------------- construction
\* target.filters for the prototype of level i: its own procedure or the one
\* it inherits; 0 if none.  The result is the level that defines it.
Definer(lv, i) ==
  IF \E j \in i..Len(lv) : lv[j]
  THEN CHOOSE j \in i..Len(lv) : lv[j] /\ \A k \in i..(j-1) : ~lv[k]
  ELSE 0

RECURSIVE ProtoChainFrom(_, _)
\* the while loop of _buildFilters: chain.push(target) for each prototype
\* with a truthy filters property, walking up from level i
ProtoChainFrom(lv, i) ==
  IF i > Len(lv) THEN <<>>
  ELSE (IF Definer(lv, i) # 0 THEN <<i>> ELSE <<>>) \o ProtoChainFrom(lv, i + 1)

Reverse(s) == [i \in 1..Len(s) |-> s[Len(s) + 1 - i]]

\* the prototypes in the order the walk finds them, the chain not reversed
BuildOrderChildFirst(lv) ==
  LET c == ProtoChainFrom(lv, 1)
  IN [i \in 1..Len(c) |-> Definer(lv, c[i])]

\* chain.reverse(), each entry replaced by the level whose procedure
\* proto.filters is
BuildOrder(lv) ==
  LET c == Reverse(ProtoChainFrom(lv, 1))
  IN [i \in 1..Len(c) |-> Definer(lv, c[i])]

\* hierarchies of MaxLevels levels; a shorter one builds the same registry as
\* the one that continues it with levels defining no filters()
LevelSeqs == [1..MaxLevels -> BOOLEAN]

NoScript == [i \in 1..MaxLevels |-> <<>>]
\* no DSL call is in progress or was the last thing the construction did
NoCall == Call("", "", NoOptions)

Init ==
  /\ variant \in {"chain", "inline"}
  /\ strictAsyncMode \in (IF variant = "chain" THEN BOOLEAN ELSE {FALSE})
  /\ levels \in LevelSeqs
  /\ methods = [n \in Names |-> Unknown]
  /\ pc = "build"
  /\ filters = <<>>
  /\ declLevel = <<>>
  /\ todo = BuildOrder(levels)
  /\ script = NoScript
  /\ pos = 0
  /\ ctorErr = ""
  /\ lastCall = NoCall
  /\ actionName = ""
  /\ handlers = <<>>
  /\ inv = <<>>
  /\ sentBy = 0
  /\ ntrig = 0
  /\ nextCalls = <<>>
  /\ chain = "none"
  /\ chainErr = ""
  /\ thrown = ""
  /\ uncaught = 0

\* how often _buildFilters runs the filters() procedure of level d
Runs(d) == Cardinality({i \in 1..Len(BuildOrder(levels)) : BuildOrder(levels)[i] = d})

RECURSIVE CallsPlanned(_, _)
\* the DSL calls the construction executes if the procedures make the calls
\* of sc and no more
CallsPlanned(sc, d) ==
  IF d = 0 THEN 0 ELSE Runs(d) * Len(sc[d]) + CallsPlanned(sc, d - 1)

\* the levels whose procedure has already run to its end once
RanBefore(d) == \E i \in 1..(Len(BuildOrder(levels)) - Len(todo)) : BuildOrder(levels)[i] = d

\* one DSL call of the filters() procedure in progress; a throw leaves
\* filters(), _buildFilters() and init(): the constructor throws
ApplyCall(call) ==
  LET r == DslCall(filters, call.kind, call.name, call.options)
  IN /\ filters' = r.filters
     /\ lastCall' = call
     /\ declLevel' = IF Len(r.filters) > Len(filters)
                     THEN Append(declLevel, Head(todo))
                     ELSE declLevel
     /\ IF r.ok
        THEN /\ pc' = "build"
             /\ ctorErr' = ""
             /\ pos' = pos + 1
             /\ todo' = todo
        ELSE /\ pc' = "ctorThrew"
             /\ ctorErr' = r.err
             /\ pos' = 0
             /\ todo' = <<>>

\* the first run of a level's filters(): the next call it makes, in a
\* construction of at most `bound` calls
FiltersCallWithin(bound, kind, name, options) ==
  /\ pc = "build" /\ todo # <<>> /\ ~RanBefore(Head(todo))
  /\ LET call == [kind |-> kind, name |-> name, options |-> options]
     IN /\ CallsPlanned([script EXCEPT ![Head(todo)] = Append(@, call)],
                        Len(levels)) <= bound
        /\ ApplyCall(call)
        /\ script' = IF pc' = "build"
                     THEN [script EXCEPT ![Head(todo)] = Append(@, call)]
                     ELSE NoScript
  /\ UNCHANGED <<classVars, methods, dispVars>>

FiltersCall(kind, name, options) == FiltersCallWithin(MaxCalls, kind, name, options)

\* a later run of an inherited filters(): the same calls again
FiltersReplay ==
  /\ pc = "build" /\ todo # <<>> /\ RanBefore(Head(todo))
  /\ pos < Len(script[Head(todo)])
  /\ ApplyCall(script[Head(todo)][pos + 1])
  /\ script' = IF pc' = "build" THEN script ELSE NoScript
  /\ UNCHANGED <<classVars, methods, dispVars>>

\* filters() returns; forEach goes on with the next prototype
FiltersReturn ==
  /\ pc = "build" /\ todo # <<>>
  /\ RanBefore(Head(todo)) => pos = Len(script[Head(todo)])
  /\ todo' = Tail(todo)
  /\ pos' = 0
  /\ UNCHANGED <<classVars, methods, pc, filters, declLevel, script, ctorErr,
                 lastCall, dispVars>>

\* _buildFilters and init return: the instance is constructed
Constructed ==
  /\ pc = "build" /\ todo = <<>>
  /\ pc' = "ready"
  /\ script' = NoScript
  /\ lastCall' = NoCall
  /\ UNCHANGED <<classVars, methods, filters, declLevel, todo, pos, ctorErr, dispVars>>

\* ----------------------------------------------------------- dispatch
\* What a handler does before it returns or throws: whether it sends the
\* response, the arguments of its calls of the trigger (NoArg, or an error),
\* and how it ends: it throws, returns a promise, or returns something else.
TrigArgs == {NoArg, Etrig}
TrigSeqs(n) == UNION { [1..k -> TrigArgs] : k \in 0..n }
Ends == {"throw", "promise", "plain"}

\* the state one call of _executeHandler closes over
NewInvocation(name) ==
  [name |-> name,
   hrp |-> FALSE,        \* handlerReturnedPromise
   hcn |-> FALSE,        \* handlerCalledNext
   outer |-> "pending",  \* the outer promise: "pending", "resolved", or its
                         \* rejection reason
   result |-> "none",    \* the promise the handler returned: "none", "pending",
                         \* "resolved", "rejected"
   first |-> "",         \* the first completion signal the handler gave:
                         \* "trigger", "triggerErr", "throw", "promise", or
                         \* "plain" (it returned without declaring the trigger)
   sentSync |-> FALSE]   \* it sent the response before it returned

\* resolve() / reject(v) of the outer promise: no effect once it is settled
Settle(c, v) == IF c.outer = "pending" THEN [c EXCEPT !.outer = v] ELSE c

Signal(c, s) == IF c.first = "" THEN [c EXCEPT !.first = s] ELSE c

\* the faked next handed to the handler: does this call throw?
FakeNextThrows(c) == c.hrp

\* a faked next that resolves the outer promise when called with no error
FakeNextResolving(c, arg) ==
  LET c1 == [Signal(c, IF arg = NoArg THEN "trigger" ELSE "triggerErr")
               EXCEPT !.hcn = TRUE]
  IN IF c.hrp THEN c1
     ELSE IF arg # NoArg THEN Settle(c1, arg)
     ELSE Settle(c1, "resolved")

\* the faked next: the closure after the call
FakeNext(c, arg) ==
  LET c1 == [Signal(c, IF arg = NoArg THEN "trigger" ELSE "triggerErr")
               EXCEPT !.hcn = TRUE]
  IN IF c.hrp THEN c1
     ELSE IF arg # NoArg THEN Settle(c1, arg)
     ELSE Settle(c1, Cancellation)

\* the faked next: does this call invoke the framework's next?
FakeNextCallsNext(c, arg) == ~c.hrp /\ arg = NoArg

RECURSIVE FakeNextAll(_, _)
FakeNextAll(c, args) ==
  IF args = <<>> THEN c ELSE FakeNextAll(FakeNext(c, Head(args)), Tail(args))

\* the calls of next made by the faked next during these calls of it (before
\* the handler returns, handlerReturnedPromise is still false)
NextCallsOf(args) ==
  SelectSeq([i \in 1..Len(args) |-> [arg |-> args[i], by |-> "trigger"]],
            LAMBDA r : r.arg = NoArg)

\* a promise branch that resolves the outer promise without waiting
ReturnedPromiseNotAwaited(c) ==
  LET c1 == [Signal(c, "promise") EXCEPT !.hrp = TRUE]
  IN IF c.hcn
     THEN Settle(c1, ErrDual)
     ELSE Settle([c1 EXCEPT !.result = "pending"], "resolved")

\* the branch taken when the handler returned a promise
ReturnedPromise(c) ==
  LET c1 == [Signal(c, "promise") EXCEPT !.hrp = TRUE]
  IN IF c.hcn
     THEN Settle(c1, ErrDual)
     ELSE [c1 EXCEPT !.result = "pending"]

\* a plain-return branch that is strict whatever strictAsyncMode says
ReturnedPlainAlwaysStrict(c, short, isResSent) ==
  LET c1 == Signal(c, "plain")
  IN IF ~short THEN c
     ELSE IF variant = "inline" THEN Settle(c1, "resolved")
     ELSE Settle(c1, ErrStrict)

\* a plain-return branch that settles nothing
ReturnedPlainUnsettled(c, short, isResSent) ==
  IF ~short THEN c ELSE Signal(c, "plain")

\* the branch taken when the handler returned no promise: a handler that
\* declares the trigger is waited for, one that does not has completed
ReturnedPlain(c, short, isResSent) ==
  LET c1 == Signal(c, "plain")
  IN IF ~short THEN c
     ELSE IF variant = "inline" THEN Settle(c1, "resolved")
     ELSE IF strictAsyncMode THEN Settle(c1, ErrStrict)
     ELSE IF isResSent THEN Settle(c1, Cancellation)
     ELSE Settle(c1, "resolved")

\* result.then(...) when the returned promise resolves
PromiseResolved(c, isResSent) ==
  LET c1 == [c EXCEPT !.result = "resolved"]
  IN IF variant = "chain" /\ isResSent
     THEN Settle(c1, Cancellation)
     ELSE Settle(c1, "resolved")

\* a link to the returned promise that takes a rejection for a resolution
PromiseRejectedAsResolved(c, reason) ==
  Settle([c EXCEPT !.result = "rejected"], "resolved")

\* .catch(reject) when the returned promise rejects
PromiseRejected(c, reason) ==
  Settle([c EXCEPT !.result = "rejected"], reason)

\* The executor of _executeHandler: the closure when the handler has
\* returned or thrown.
ExecuteHandler(name, short, send, trig, end, wasSent) ==
  LET c0 == [NewInvocation(name) EXCEPT !.sentSync = send]
      c1 == FakeNextAll(c0, trig)
      isResSent == wasSent \/ send
  IN CASE end = "throw" -> Settle(Signal(c1, "throw"), Ethrow)
       [] end = "promise" -> ReturnedPromise(c1)
       [] end = "plain" -> ReturnedPlain(c1, short, isResSent)

Last(s) == s[Len(s)]
\* the longest handler chain: every declaration of every run of filters(), and
\* the action
MaxChain == MaxCalls + 1
IsResSent == sentBy # 0
Rejected(c) == c.outer \notin {"pending", "resolved"}

\* prototypeOf(this).hasOwnProperty(name) and this[name] of the middleware:
\* where the action is found
LookupWhere(name, w) ==
  /\ w \in Wheres
  /\ methods[name].where # "unknown" => w = methods[name].where

\* this[name] of a handler about to be invoked: is it a function?
LookupDefined(name, def) ==
  /\ def \in BOOLEAN
  /\ methods[name].where # "unknown" => def = (methods[name].where # "absent")

\* handler.length < 3 of the function this[name], fixed by the first lookup
LookupShort(name, sh) ==
  /\ sh \in BOOLEAN
  /\ methods[name].short # "unknown" => sh = (methods[name].short = "yes")

\* a middleware that uses the registry up: the declarations it selected are gone
DispatchConsuming(a) ==
  /\ pc = "ready"
  /\ pc' = "dispatched"
  /\ actionName' = a
  /\ \E w \in Wheres :
       /\ LookupWhere(a, w)
       /\ methods' = [methods EXCEPT ![a].where = w]
       /\ IF (variant = "chain" /\ w = "own") \/ (variant = "inline" /\ w # "absent")
          THEN /\ handlers' = BuildHandlers(filters, a)
               /\ chain' = "each"
               /\ thrown' = ""
          ELSE /\ handlers' = <<>>
               /\ chain' = "threw"
               /\ thrown' = ErrNoAction
  /\ filters' = SelectSeq(filters, LAMBDA f : ~FilterApplies(f, a, f.stage))
  /\ UNCHANGED <<classVars, declLevel, todo, script, pos, ctorErr, lastCall, inv,
                 sentBy, ntrig, nextCalls, chainErr, uncaught>>

\* the middleware: controller.action(actionName)(req, res, next)
Dispatch(a) ==
  /\ pc = "ready"
  /\ pc' = "dispatched"
  /\ actionName' = a
  /\ \E w \in Wheres :
       /\ LookupWhere(a, w)
       /\ methods' = [methods EXCEPT ![a].where = w]
       /\ IF (variant = "chain" /\ w = "own") \/ (variant = "inline" /\ w # "absent")
          THEN /\ handlers' = BuildHandlers(filters, a)
               /\ chain' = "each"
               /\ thrown' = ""
          ELSE /\ handlers' = <<>>
               /\ chain' = "threw"
               /\ thrown' = ErrNoAction
  /\ UNCHANGED <<classVars, ctorVars, inv, sentBy, ntrig, nextCalls, chainErr,
                 uncaught>>

\* handlerChain.each: the next handler of the chain, once the promise of the
\* one before has resolved
InvokeHandler(send, trig, end) ==
  /\ chain = "each"
  /\ Len(inv) < Len(handlers)
  /\ inv # <<>> => Last(inv).outer = "resolved"
  /\ LET name == handlers[Len(inv) + 1]
     IN \E def \in BOOLEAN, short \in BOOLEAN :
          /\ LookupDefined(name, def)
          /\ IF def
             THEN \* handler.length is read only when no promise was returned
                  /\ IF end = "plain" THEN LookupShort(name, short) ELSE short = FALSE
                  /\ methods' =
                       [methods EXCEPT
                          ![name].where = IF @ = "unknown" THEN "defined" ELSE @,
                          ![name].short = IF end = "plain"
                                          THEN (IF short THEN "yes" ELSE "no")
                                          ELSE @]
                  /\ trig \in TrigSeqs(MaxTrigger - ntrig)
                  /\ inv' = Append(inv, ExecuteHandler(name, short, send, trig,
                                                       end, IsResSent))
                  /\ sentBy' = IF send /\ sentBy = 0 THEN Len(inv) + 1 ELSE sentBy
                  /\ ntrig' = ntrig + Len(trig)
                  /\ nextCalls' = nextCalls \o NextCallsOf(trig)
                  /\ UNCHANGED <<chain, chainErr>>
             ELSE /\ send = FALSE /\ trig = <<>> /\ end = "plain" /\ short = FALSE
                  /\ methods' = [methods EXCEPT ![name].where = "absent"]
                  /\ chain' = "rejected"
                  /\ chainErr' = IF variant = "chain" THEN ErrNoFilter
                                 ELSE ErrTypeError
                  /\ UNCHANGED <<inv, sentBy, ntrig, nextCalls>>
  /\ UNCHANGED <<classVars, pc, ctorVars, actionName, handlers, thrown, uncaught>>

\* a handler invoked earlier calls its trigger after it has returned
LateTrigger(i, arg, inChain) ==
  /\ chain \notin {"none", "threw"}
  /\ i \in 1..Len(inv)
  /\ ntrig < MaxTrigger
  /\ ntrig' = ntrig + 1
  /\ IF FakeNextThrows(inv[i])
     THEN \* the error goes to the caller of the trigger: a callback of the
          \* promise the handler returned, which then rejects, or some
          \* other callback
          /\ nextCalls' = nextCalls
          /\ IF inChain
             THEN /\ inv[i].result = "pending"
                  /\ inv' = [inv EXCEPT ![i] = PromiseRejected(FakeNext(@, arg), ErrDual)]
                  /\ uncaught' = uncaught
             ELSE /\ inv' = [inv EXCEPT ![i] = FakeNext(@, arg)]
                  /\ uncaught' = uncaught + 1
     ELSE /\ inChain = FALSE
          /\ inv' = [inv EXCEPT ![i] = FakeNext(@, arg)]
          /\ nextCalls' = IF FakeNextCallsNext(inv[i], arg)
                          THEN Append(nextCalls, [arg |-> NoArg, by |-> "trigger"])
                          ELSE nextCalls
          /\ uncaught' = uncaught
  /\ UNCHANGED <<classVars, methods, pc, ctorVars, actionName, handlers, sentBy,
                 chain, chainErr, thrown>>

\* the promise a handler returned settles
SettleResult(i, ok) ==
  /\ i \in 1..Len(inv)
  /\ inv[i].result = "pending"
  /\ inv' = [inv EXCEPT ![i] = IF ok THEN PromiseResolved(@, IsResSent)
                               ELSE PromiseRejected(@, Erej)]
  /\ UNCHANGED <<classVars, methods, pc, ctorVars, actionName, handlers, sentBy,
                 ntrig, nextCalls, chain, chainErr, thrown, uncaught>>

\* a handler that has returned sends the response later
LateSend ==
  /\ inv # <<>>
  /\ sentBy = 0
  /\ sentBy' = Len(inv)
  /\ UNCHANGED <<classVars, methods, pc, ctorVars, actionName, handlers, inv,
                 ntrig, nextCalls, chain, chainErr, thrown, uncaught>>

\* a chain that does not ask whether the response was sent
ChainThenUnchecked ==
  /\ chain = "each"
  /\ Len(inv) = Len(handlers)
  /\ Last(inv).outer = "resolved"
  /\ chain' = "fulfilled" /\ chainErr' = chainErr
  /\ UNCHANGED <<classVars, methods, pc, ctorVars, actionName, handlers, inv,
                 sentBy, ntrig, nextCalls, thrown, uncaught>>

\* .then(() => { if (!isResSent) throw Incomplete action }) after the last handler
ChainThen ==
  /\ chain = "each"
  /\ Len(inv) = Len(handlers)
  /\ Last(inv).outer = "resolved"
  /\ IF IsResSent
     THEN chain' = "fulfilled" /\ chainErr' = chainErr
     ELSE chain' = "rejected" /\ chainErr' = ErrIncomplete
  /\ UNCHANGED <<classVars, methods, pc, ctorVars, actionName, handlers, inv,
                 sentBy, ntrig, nextCalls, thrown, uncaught>>

\* the rejection reason the catch handlers of the chain receive
ChainRejection ==
  IF chain = "rejected" THEN chainErr
  ELSE IF chain = "each" /\ inv # <<>> /\ Rejected(Last(inv)) THEN Last(inv).outer
  ELSE ""

\* .catch(CancellationError, () => next()).catch((err) => next(err))
ChainCatch ==
  /\ ChainRejection # ""
  /\ chain' = "caught"
  /\ chainErr' = ChainRejection
  /\ nextCalls' = Append(nextCalls,
                         [arg |-> IF ChainRejection = Cancellation THEN NoArg
                                  ELSE ChainRejection,
                          by |-> "catch"])
  /\ UNCHANGED <<classVars, methods, pc, ctorVars, actionName, handlers, inv,
                 sentBy, ntrig, thrown, uncaught>>

\* the terminal state of the dispatch
Outcome ==
  CASE chain = "fulfilled" -> "Completed"
    [] chain = "caught" /\ chainErr = Cancellation -> "Skipped"
    [] chain = "caught" /\ chainErr # Cancellation -> "Failed"
    [] chain = "threw" -> "Threw"
    [] OTHER -> "Running"

\* What action(name, req, res, next) returns to its caller: the middleware of
\* part_003 has no return statement; the one of part_002 returns the handler
\* chain, whose catch handler rethrows the error it passed to next.
DispatchReturn ==
  IF variant = "chain"
  THEN [k |-> "undefined", state |-> "", reason |-> ""]
  ELSE [k |-> "promise",
        state |-> CASE chain = "fulfilled" -> "resolved"
                    [] chain = "caught" -> "rejected"
                    [] OTHER -> "pending",
        reason |-> IF chain = "caught" THEN chainErr ELSE ""]

\* ------------------------------------------------------------- claims
Terminal == chain \in {"fulfilled", "caught"}
\* the calls of next made by the catch handlers of the chain
CatchCalls == SelectSeq(nextCalls, LAMBDA r : r.by = "catch")
Range(s) == {s[i] : i \in 1..Len(s)}

\* C1 (as claimed): in one dispatch the framework continuation next is
\* invoked at most once, and exactly once when the dispatch ends Skipped or
\* Failed.
C1_NextAtMostOnce ==
  /\ Len(nextCalls) <= 1
  /\ Outcome \in {"Skipped", "Failed"} => Len(nextCalls) = 1

\* C2: handlers run one at a time in chain order: when a handler is invoked,
\* every handler before it has finished, and if it returned a promise that
\* promise has resolved.
C2_OneAtATime ==
  /\ \A i \in 1..Len(inv) : inv[i].name = handlers[i]
  /\ \A i \in 1..(Len(inv) - 1) :
       /\ inv[i].outer = "resolved"
       /\ inv[i].hrp => inv[i].result = "resolved"

\* two before filters and the action have been invoked, the first filter
\* having returned a promise
C2_Witness ==
  /\ Len(inv) = 3
  /\ handlers[3] = actionName
  /\ inv[1].hrp
  /\ inv[2].first = "plain"

\* the handler threw before giving any other signal
Threw(c) == c.first = "throw"
\* the handler returned a promise, before giving any other signal, and the
\* promise has rejected
PromiseHasRejected(c) == c.first = "promise" /\ c.result = "rejected"

C3_State ==
  \A i \in 1..Len(inv) :
    (Threw(inv[i]) \/ PromiseHasRejected(inv[i])) =>
      /\ i = Len(inv)
      /\ Threw(inv[i]) => inv[i].outer = Ethrow
      /\ PromiseHasRejected(inv[i]) => inv[i].outer \in {Erej, ErrDual}
      /\ Terminal =>
           /\ Outcome = "Failed"
           /\ CatchCalls = <<[arg |-> inv[i].outer, by |-> "catch"]>>
      /\ ~Terminal => CatchCalls = <<>>

\* C3: if a handler throws synchronously or returns a promise that rejects,
\* no later handler is invoked, no step of the executor sends the response,
\* and the chain hands next exactly the thrown value or rejection reason.
C3_ErrorAborts ==
  /\ []C3_State
  /\ [][chain' # chain => sentBy' = sentBy]_vars

\* a first before filter resolved, the second one rejected its promise, and
\* next received the reason
C3_Witness ==
  /\ Len(handlers) = 3
  /\ Len(inv) = 2
  /\ PromiseHasRejected(inv[2])
  /\ Outcome = "Failed"
  /\ sentBy = 0

\* every handler of the chain has run and completed, and the response is unsent
AllCompletedUnsent ==
  /\ Terminal
  /\ Len(inv) = Len(handlers)
  /\ \A i \in 1..Len(inv) : inv[i].outer = "resolved"
  /\ sentBy = 0

IncompleteDelivered ==
  /\ Outcome = "Failed"
  /\ chainErr = ErrIncomplete
  /\ CatchCalls = <<[arg |-> ErrIncomplete, by |-> "catch"]>>

ActionSentSync(k) ==
  /\ k = Len(handlers)
  /\ inv[k].name = actionName
  /\ inv[k].sentSync /\ sentBy = k
  /\ inv[k].first = "plain"
  /\ ~inv[k].hcn

\* C5 (as claimed): if the action sends the response synchronously and
\* returns no promise, the dispatch ends Completed and next is never invoked.
C5_SyncSendCompletes ==
  \A k \in 1..Len(inv) :
    ActionSentSync(k) =>
      /\ nextCalls = <<>>
      /\ Outcome \in {"Running", "Completed"}

\* the action is the last handler of the chain, it returned a promise, sent
\* the response and then the promise resolved; no handler called its trigger
ActionSentThenResolved(k) ==
  /\ k = Len(handlers)
  /\ inv[k].name = actionName
  /\ inv[k].first = "promise"
  /\ inv[k].result = "resolved"
  /\ ~inv[k].sentSync /\ sentBy = k
  /\ ntrig = 0

\* C6 (as claimed): if the action returns a promise that sends the response
\* and then resolves, the dispatch is a success and next is not invoked.
C6_PromiseSendCompletes ==
  \A k \in 1..Len(inv) :
    ActionSentThenResolved(k) =>
      /\ nextCalls = <<>>
      /\ Outcome \in {"Running", "Completed"}

\* C7: if a handler completes by invoking the trigger with no error, no later
\* handler is invoked, the dispatch ends Skipped, and next is invoked with no
\* argument.
C7_SkipAborts ==
  \A i \in 1..Len(inv) :
    inv[i].first = "trigger" =>
      /\ i = Len(inv)
      /\ inv[i].outer = Cancellation
      /\ nextCalls # <<>>
      /\ \A k \in 1..Len(nextCalls) : nextCalls[k].arg = NoArg
      /\ Terminal => Outcome = "Skipped"

\* the second of three handlers skipped, and the dispatch has ended
C7_Witness ==
  /\ Len(handlers) = 3
  /\ Len(inv) = 2
  /\ inv[2].first = "trigger"
  /\ Outcome = "Skipped"

\* C8 (as claimed): if one handler invocation both returns a promise and
\* invokes the trigger, the dispatch ends Failed with the 'returned a Promise
\* *and* called continue' error and no subsequent handler runs.
C8_DualFails ==
  \A i \in 1..Len(inv) :
    (inv[i].hrp /\ inv[i].hcn) =>
      /\ i = Len(inv)
      /\ Terminal => (Outcome = "Failed" /\ chainErr = ErrDual)

\* the rule of the specification for a filter applying to an action
SpecApplies(d, a, S) ==
  /\ d.stage = S
  /\ ~d.skip
  /\ a \notin Range(d.except)
  /\ (d.only = <<>> \/ a \in Range(d.only))

\* the names of the declarations of stage S that apply to a, in declaration order
SpecSelected(fs, a, S) ==
  LET sel == SelectSeq(fs, LAMBDA d : SpecApplies(d, a, S))
  IN [i \in 1..Len(sel) |-> sel[i].name]

\* C9: the filters selected for (a, S) are exactly the declarations of stage
\* S with skip not set, a not in except, and only empty or holding a; a
\* filter not selected is never invoked in a dispatch of a.
C9_Selection ==
  /\ \A a \in Actions, S \in Stages :
       FiltersForAction(filters, a, S) = SpecSelected(filters, a, S)
  /\ \A i \in 1..Len(inv) :
       \/ inv[i].name = actionName
       \/ \E j \in 1..Len(filters), S \in Stages :
            filters[j].name = inv[i].name /\ SpecApplies(filters[j], actionName, S)

\* the registry holds a filter that applies to the action and one that does
\* not, and the whole chain has been invoked
C9_Witness ==
  /\ Len(filters) = 2
  /\ Len(handlers) = 2
  /\ Len(inv) = 2
  /\ \E j \in 1..2 : filters[j].except # <<>> \/ filters[j].only # <<>> \/ filters[j].skip

\* C10: the handler chain is the applicable before filters in declaration
\* order, then the action exactly once, then the applicable after filters in
\* declaration order; handlers are invoked in that order.
C10_ChainOrder ==
  chain \notin {"none", "threw"} =>
    /\ handlers = SpecSelected(filters, actionName, "before")
                    \o <<actionName>>
                    \o SpecSelected(filters, actionName, "after")
    /\ Cardinality({i \in 1..Len(handlers) : handlers[i] = actionName}) = 1
    /\ Len(inv) <= Len(handlers)
    /\ \A i \in 1..Len(inv) : inv[i].name = handlers[i]

\* a before filter, the action and an after filter have been invoked in turn
C10_Witness ==
  /\ Len(handlers) = 3
  /\ handlers[2] = actionName
  /\ Len(inv) = 3


\* the position of the action in the handler chain
ActionIndex == Len(FiltersForAction(filters, actionName, "before")) + 1

\* no handler has thrown, passed an error to its trigger or rejected, no
\* handler has called its trigger at all, and the dispatch has not failed
NoHandlerErrors ==
  /\ \A i \in 1..Len(inv) :
       /\ inv[i].first \notin {"throw", "triggerErr"}
       /\ inv[i].result # "rejected"
  /\ ntrig = 0
  /\ uncaught = 0
  /\ Outcome # "Failed"

\* C11 (as claimed): in a dispatch whose action sends the response and in
\* which no handler errors, every applicable before filter is invoked before
\* the action and every applicable after filter is invoked after it: when the
\* dispatch has ended, the whole chain has been invoked.
C11_FiltersAroundAction ==
  ( /\ Terminal
    /\ Len(inv) >= ActionIndex
    /\ sentBy = ActionIndex
    /\ NoHandlerErrors )
  => Len(inv) = Len(handlers)

\* C12 (as claimed): if a filter sends the response while it runs, no later
\* filter and no action of the dispatch is invoked.
C12_FilterSendStops ==
  \A k \in 1..Len(inv) :
    (k # ActionIndex /\ inv[k].sentSync /\ sentBy = k) => Len(inv) = k

RECURSIVE AppliedFrom(_, _, _, _)
\* the positions in the registry of the declarations _filtersForAction keeps
AppliedFrom(fs, i, a, S) ==
  IF i > Len(fs) THEN <<>>
  ELSE (IF FilterApplies(fs[i], a, S) THEN <<i>> ELSE <<>>)
       \o AppliedFrom(fs, i + 1, a, S)

\* the declaration each handler of the chain comes from; 0 for the action
HandlerDecl ==
  AppliedFrom(filters, 1, actionName, "before")
    \o <<0>>
    \o AppliedFrom(filters, 1, actionName, "after")

\* handler p of the chain is a filter of stage S
IsStage(p, S) == HandlerDecl[p] # 0 /\ filters[HandlerDecl[p]].stage = S

\* the level that declared handler p (a greater number is an ancestor)
LevelOf(p) == declLevel[HandlerDecl[p]]

C14_ParentAfterFollows ==
  chain \notin {"none", "threw"} =>
    \A p \in 1..Len(inv), q \in 1..Len(inv) :
      /\ (IsStage(p, "before") /\ IsStage(q, "before") /\ LevelOf(p) > LevelOf(q))
           => p < q
      /\ (IsStage(p, "after") /\ IsStage(q, "after") /\ LevelOf(p) > LevelOf(q))
           => p > q

\* this step is the DSL call `call` made by a filters() procedure
CallStep(call) ==
  /\ pc = "build" /\ todo # <<>>
  /\ pc' = "ctorThrew" \/ pos' = pos + 1
  /\ lastCall' = call

\* ... returning without an error
CallReturns(call) == CallStep(call) /\ pc' = "build"

SkipOnlyStep(call) ==
  /\ CallReturns(call)
  /\ call.kind = "skipBefore"
  /\ EnsureArray(call.options.only) # <<>>
  /\ filters[FindWhere(filters, call.name, "before")].except = <<>>

\* C15: after skipBefore(name, {only: [X]}) on a before filter that had no
\* prior except, the filter does not apply to action X, and it applies to
\* every other action exactly when it did before the call.
C15_SkipOnly ==
  [][ \A call \in Calls :
        SkipOnlyStep(call) =>
          LET i == FindWhere(filters, call.name, "before")
              X == Range(EnsureArray(call.options.only))
          IN \A a \in Actions :
               /\ a \in X => ~FilterApplies(filters'[i], a, "before")
               /\ a \notin X => (FilterApplies(filters'[i], a, "before")
                                 <=> FilterApplies(filters[i], a, "before")) ]_vars

\* a before filter declared for every action has been skipped for x alone,
\* and an action it still applies to is dispatched
C15_Witness ==
  /\ \E i \in 1..Len(filters) :
       /\ filters[i].stage = "before" /\ filters[i].only = <<>>
       /\ filters[i].except = <<"x">> /\ ~filters[i].skip
  /\ actionName = "y"
  /\ Len(inv) = 2

\* skipBefore(n) with no options has succeeded: a before declaration of n
\* carries the skip flag, which nothing else sets
SkippedBefore(n) ==
  \E i \in 1..Len(filters) :
    filters[i].name = n /\ filters[i].stage = "before" /\ filters[i].skip

\* C16 (as claimed): after skipBefore(name) with no options succeeds, in any
\* registry reachable by before/after/skip calls, the filter `name` is not
\* invoked as a before filter in a dispatch of any action.
C16_SkipAll ==
  \A n \in FilterNames :
    (SkippedBefore(n) /\ chain \notin {"none", "threw"}) =>
      \A p \in 1..Len(inv) : ~(IsStage(p, "before") /\ inv[p].name = n)

\* the caller gave the option a value
Supplied(v) == v.k # "undef"

\* C17: before(name, options) / after(name, options) with both only and
\* except supplied fails with the conflicting-options error and appends no
\* declaration: the registry is what it was.
C17_ConflictRejected ==
  [][ \A call \in Calls :
        ( /\ CallStep(call)
          /\ call.kind \in {"before", "after"}
          /\ call.name \in FilterNames
          /\ Supplied(call.options.only) /\ Supplied(call.options.except) )
        => /\ pc' = "ctorThrew"
           /\ ctorErr' = ErrConflict
           /\ filters' = filters ]_vars

\* after(name, { only: [], except: 'x' }) has thrown out of a constructor
\* that had declared a filter before
C17_Witness ==
  /\ pc = "ctorThrew"
  /\ ctorErr = ErrConflict
  /\ lastCall.kind = "after"
  /\ Len(filters) = 1

\* the stage a skip call names
SkipStage(kind) == IF kind = "skipBefore" THEN "before" ELSE "after"

\* C18: skipBefore / skipAfter for a (name, stage) pair with no declaration
\* (a name declared for the other stage only is such a pair) fails with the
\* unknown-filter error and leaves every declaration unchanged.
C18_UnknownSkipRejected ==
  [][ \A call \in Calls :
        ( /\ CallStep(call)
          /\ call.kind \in {"skipBefore", "skipAfter"}
          /\ ~\E i \in 1..Len(filters) :
                filters[i].name = call.name
                  /\ filters[i].stage = SkipStage(call.kind) )
        => /\ pc' = "ctorThrew"
           /\ ctorErr' = ErrNotPresent
           /\ filters' = filters ]_vars

\* a skipBefore has thrown for a name that is declared as an after filter
C18_Witness ==
  /\ pc = "ctorThrew"
  /\ ctorErr = ErrNotPresent
  /\ lastCall.kind = "skipBefore"
  /\ \E i \in 1..Len(filters) :
       filters[i].name = lastCall.name /\ filters[i].stage = "after"

\* C19 (as claimed): dispatching an action name that is not a method defined
\* at the instance's most specific level (absent, or only inherited) fails
\* with the undefined-action error, and no handler is invoked.
C19_UndefinedAction ==
  (pc = "dispatched" /\ methods[actionName].where \in {"absent", "inherited"})
    => /\ thrown = ErrNoAction
       /\ chain = "threw"
       /\ inv = <<>>

\* next has been invoked with e as its argument
Delivered(e) == \E k \in 1..Len(nextCalls) : nextCalls[k].arg = e

\* C20 (as claimed): every dispatch-time error is delivered by invoking next
\* with that error; none is thrown to the caller instead or dropped.
C20_ErrorsToNext ==
  /\ thrown = ""
  /\ uncaught = 0
  /\ (chain = "caught" /\ chainErr # Cancellation) => Delivered(chainErr)
  /\ Terminal =>
       \A i \in 1..Len(inv) :
         /\ inv[i].first = "throw" => Delivered(Ethrow)
         /\ inv[i].first = "triggerErr" => Delivered(Etrig)
         /\ (inv[i].first = "promise" /\ inv[i].result = "rejected")
              => Delivered(inv[i].outer)
         /\ (inv[i].hrp /\ inv[i].hcn) => Delivered(ErrDual)

\* handler i declares fewer than three parameters, returned no promise and
\* did not invoke the trigger before it returned
SyncHandler(i) == inv[i].first = "plain"

\* C21 (as claimed): with strict enforcement enabled, a handler that neither
\* returns a promise nor invokes the trigger fails the dispatch with the
\* missing-completion-signal error, unless that handler has already sent the
\* response: then it counts as a success and the chain proceeds.
C21_StrictUnlessSent ==
  \A i \in 1..Len(inv) :
    (variant = "chain" /\ strictAsyncMode /\ SyncHandler(i)) =>
      IF inv[i].sentSync /\ sentBy = i
      THEN inv[i].outer = "resolved"
      ELSE inv[i].outer = ErrStrict

\* C22 (as claimed): a dispatch started with action(name, req, res, next)
\* returns a promise, which resolves when the dispatch ends Completed and
\* rejects with the handler's error when it ends Failed.
C22_DispatchPromise ==
  chain \notin {"none", "threw"} =>
    /\ DispatchReturn.k = "promise"
    /\ Outcome = "Completed" => DispatchReturn.state = "resolved"
    /\ Outcome = "Failed" =>
         DispatchReturn.state = "rejected" /\ DispatchReturn.reason = chainErr

\* C23 (as claimed): before()/after() given the filter function itself
\* instead of a name accepts the declaration.
C23_FunctionFilter ==
  (lastCall.name = FnRef /\ lastCall.kind \in {"before", "after"}) =>
    /\ pc = "build"
    /\ filters # <<>> /\ Last(filters).name = FnRef

\* C24 (as claimed): that every filter of the chain resolves to a defined
\* method is checked as a precondition: if an applicable filter is undefined,
\* the dispatch fails with the undefined-filter error before any handler of
\* the chain has been invoked.
C24_FiltersChecked ==
  \A p \in 1..Len(handlers) :
    ( /\ chain \notin {"none", "threw"}
      /\ p # ActionIndex
      /\ methods[handlers[p]].where = "absent" )
    => /\ inv = <<>>
       /\ chainErr = ErrNoFilter

\* C25 (as claimed): once a dispatch has reached Skipped or Failed, no
\* handler is invoked afterwards, and a later promise settlement or call of
\* the trigger by a handler that has run makes no further call of next.
C25_NothingAfterAbort ==
  [][ (Outcome = "Skipped" \/ Outcome = "Failed") =>
        (nextCalls' = nextCalls /\ Len(inv') = Len(inv) /\ chain' = chain) ]_vars


\* The last handler invoked declares the trigger, returned no promise and has
\* not called the trigger yet: the outer promise has no branch that settles it
\* (the plain-return branch is guarded by handler.length < 3).
AwaitingTrigger ==
  /\ chain = "each"
  /\ inv # <<>>
  /\ Last(inv).outer = "pending"
  /\ Last(inv).result = "none"
  /\ methods[Last(inv).name].short = "no"

\* C26 as stated: every dispatch that runs its handler chain eventually
\* reaches a terminal state (Completed, Skipped or Failed), given that every
\* promise a handler returned settles -- whatever the handler's parameters.
C26_Original == (chain = "each") ~> Terminal

\* C26: given that every promise a handler returned settles, a dispatch that
\* runs its handler chain eventually reaches a terminal state or waits for a
\* handler that declares the trigger, returned no promise and has not invoked
\* the trigger; a handler that declares fewer than three parameters and
\* returned no promise never leaves its outer promise pending; and a terminal
\* state, once reached, is never left or exchanged for another.
C26_Terminates ==
  /\ (chain = "each") ~> (Terminal \/ AwaitingTrigger)
  /\ [](\A i \in 1..Len(inv) : inv[i].first = "plain" => inv[i].outer # "pending")
  /\ [][Terminal => UNCHANGED <<chain, chainErr>>]_vars

\* a handler without the trigger parameter returned no promise in strict
\* mode, and the dispatch has ended with the diagnostic error
C26_Witness ==
  /\ Terminal
  /\ Outcome = "Failed"
  /\ chainErr = ErrStrict
  /\ Last(inv).first = "plain"
  /\ methods[Last(inv).name].short = "yes"
  /\ ~Last(inv).sentSync

\* the declarations in the registry that the filters() procedure of level d pushed
DeclaredBy(d) == Cardinality({i \in 1..Len(filters) : declLevel[i] = d})

\* the before/after calls the filters() procedure of level d has made in one run
DeclCalls(d) ==
  Cardinality({k \in 1..Len(script[d]) : script[d][k].kind \in Stages})

\* C27: during construction the filters() procedure of every level runs at
\* most once: the registry never holds more declarations pushed by a level's
\* procedure than the before/after calls one run of that procedure makes.
C27_OncePerLevel ==
  pc = "build" => \A d \in 1..MaxLevels : DeclaredBy(d) <= DeclCalls(d)

\* this step is a skipBefore / skipAfter call that returns without an error
SkipReturns(call) ==
  CallReturns(call) /\ call.kind \in {"skipBefore", "skipAfter"}

\* C28: a successful skipBefore / skipAfter call never makes a filter apply
\* to an action it did not apply to before the call.
C28_SkipNarrows ==
  [][ \A call \in Calls :
        SkipReturns(call) =>
          \A i \in 1..Len(filters), a \in Actions, S \in Stages :
            ~FilterApplies(filters[i], a, S) => ~FilterApplies(filters'[i], a, S) ]_vars

\* C29: a successful skipBefore / skipAfter call leaves every name of a
\* non-empty except option in the only list of the declaration it targets,
\* and every name of a non-empty only option in its except list, also when
\* the call supplies both options.
C29_SkipMerges ==
  [][ \A call \in Calls :
        SkipReturns(call) =>
          LET i == FindWhere(filters, call.name, SkipStage(call.kind))
              only == EnsureArray(call.options.only)
              except == EnsureArray(call.options.except)
          IN /\ Range(except) \subseteq Range(filters'[i].only)
             /\ Range(only) \subseteq Range(filters'[i].except) ]_vars

\* at most one of the only and except lists of a declaration is non-empty
OneSided(filter) == filter.only = <<>> \/ filter.except = <<>>

\* C30 as stated: in every registry state every declaration has at most one
\* of only and except non-empty.
C30_Original == \A i \in 1..Len(filters) : OneSided(filters[i])

\* C30: a successful before / after call appends one declaration, of which
\* at most one of only and except is non-empty, and leaves the declarations
\* already in the registry as they are; a declaration comes to have both
\* non-empty only through a skipBefore / skipAfter call that targets it.
C30_OneSidedWhenDeclared ==
  [][ \A call \in Calls :
        CallReturns(call) =>
          IF call.kind \in Stages
          THEN /\ Len(filters') = Len(filters) + 1
               /\ SubSeq(filters', 1, Len(filters)) = filters
               /\ OneSided(Last(filters'))
          ELSE \A i \in 1..Len(filters) :
                 (OneSided(filters[i]) /\ ~OneSided(filters'[i]))
                   => i = FindWhere(filters, call.name, SkipStage(call.kind)) ]_vars

\* a before / after call that supplies an option has returned, and another
\* declaration of the registry has both lists non-empty after a skip
C30_Witness ==
  /\ pc = "build"
  /\ lastCall.kind \in Stages
  /\ Supplied(lastCall.options.only) \/ Supplied(lastCall.options.except)
  /\ ~(Last(filters).only = <<>> /\ Last(filters).except = <<>>)
  /\ \E i \in 1..Len(filters) : ~OneSided(filters[i])

\* C31: declarations are never deleted or reordered. A successful before /
\* after call appends one declaration of its name and stage and leaves the
\* others as they are; a successful skipBefore / skipAfter call leaves the
\* length of the registry, every name and stage and every declaration other
\* than the first one matching (name, stage) as they are; a call that throws
\* leaves the registry as it is.
C31_NeverDeleted ==
  [][ \A call \in Calls :
        CallStep(call) =>
          IF pc' = "ctorThrew" THEN filters' = filters
          ELSE IF call.kind \in Stages
          THEN /\ Len(filters') = Len(filters) + 1
               /\ SubSeq(filters', 1, Len(filters)) = filters
               /\ Last(filters').name = call.name
               /\ Last(filters').stage = call.kind
          ELSE LET t == FindWhere(filters, call.name, SkipStage(call.kind))
               IN /\ t \in 1..Len(filters)
                  /\ Len(filters') = Len(filters)
                  /\ \A i \in 1..Len(filters) :
                       /\ filters'[i].name = filters[i].name
                       /\ filters'[i].stage = filters[i].stage
                       /\ i # t => filters'[i] = filters[i]
                  /\ filters'[t] # filters[t]
                       => [filters'[t] EXCEPT !.only = <<>>, !.except = <<>>,
                                              !.skip = FALSE]
                          = [filters[t] EXCEPT !.only = <<>>, !.except = <<>>,
                                               !.skip = FALSE] ]_vars

\* a skip has just succeeded on a declaration that is not the first of a
\* registry of several, and has changed its options
C31_Witness ==
  /\ pc = "build"
  /\ lastCall.kind \in {"skipBefore", "skipAfter"}
  /\ Len(filters) >= 2
  /\ LET t == FindWhere(filters, lastCall.name, SkipStage(lastCall.kind))
     IN /\ t >= 2
        /\ filters[t].skip \/ (filters[t].only # <<>> /\ filters[t].except # <<>>)

\* C32: once the instance is constructed no step changes a declaration of its
\* registry, whatever the dispatch does and however it ends; so the handler
\* chain the dispatch resolved is, in every later state, the chain a dispatch
\* of the same action resolves from the registry as it is then.
C32_RegistryReadOnly ==
  /\ [][ (pc = "ready" \/ pc = "dispatched") => filters' = filters ]_vars
  /\ [](chain \notin {"none", "threw"}
          => handlers = BuildHandlers(filters, actionName))

\* a dispatch whose chain held a filter has ended, with or without an error
C32_Witness ==
  /\ Terminal
  /\ Len(handlers) >= 2
  /\ Len(inv) >= 2
  /\ Outcome \in {"Failed", "Skipped"}

\* handler i has returned, with strictAsyncMode false, without returning a
\* promise, and has not invoked the trigger nor has the response been sent
Silent(i) ==
  /\ ~strictAsyncMode
  /\ i \in 1..Len(inv)
  /\ inv[i].first \in {"", "plain"}
  /\ inv[i].result = "none"
  /\ ~inv[i].hcn
  /\ sentBy = 0

\* the response had not been sent when handler i returned
UnsentAtReturn(i) ==
  sentBy = 0 \/ sentBy > i \/ (sentBy = i /\ ~inv[i].sentSync)

\* C33 as stated: with strictAsyncMode false, a handler that has returned no
\* promise and does not invoke the trigger, the response not being sent, is
\* taken for a success, whatever parameters it declares: its outer promise
\* resolves (unless it invokes the trigger or the response is sent after all).
C33_Original ==
  \A i \in 1..MaxChain :
    Silent(i) ~> ( /\ i \in 1..Len(inv)
                   /\ inv[i].outer = "resolved" \/ inv[i].hcn \/ sentBy # 0 )

\* C33: with strictAsyncMode false, a handler that declares fewer than three
\* parameters and returns no promise, the response not having been sent when
\* it returns, is an implicit success: its outer promise is resolved, and if
\* it is not the last of the chain the next handler is invoked (or found
\* undefined).
C33_ImplicitSuccess ==
  /\ [](\A i \in 1..Len(inv) :
          (~strictAsyncMode /\ inv[i].first = "plain" /\ UnsentAtReturn(i))
            => inv[i].outer = "resolved")
  /\ \A i \in 1..MaxChain :
       ( /\ ~strictAsyncMode
         /\ i \in 1..Len(inv) /\ i < Len(handlers)
         /\ inv[i].first = "plain" /\ UnsentAtReturn(i) )
         ~> (Len(inv) > i \/ chainErr \in {ErrNoFilter, ErrTypeError})

\* a filter of the controller of part_003 returned no promise in relaxed
\* mode, and the next handler has been invoked
C33_Witness ==
  /\ variant = "chain"
  /\ ~strictAsyncMode
  /\ Len(inv) >= 2
  /\ inv[1].first = "plain"
  /\ inv[1].outer = "resolved"
  /\ ~inv[1].sentSync

Next ==
  \/ \E c \in Calls : FiltersCall(c.kind, c.name, c.options)
  \/ FiltersReplay
  \/ FiltersReturn
  \/ Constructed
  \/ \E a \in Actions : Dispatch(a)
  \/ \E send \in BOOLEAN, trig \in TrigSeqs(MaxTrigger), end \in Ends :
       InvokeHandler(send, trig, end)
  \/ \E i \in 1..MaxChain, arg \in TrigArgs, inChain \in BOOLEAN :
       LateTrigger(i, arg, inChain)
  \/ \E i \in 1..MaxChain, ok \in BOOLEAN : SettleResult(i, ok)
  \/ LateSend
  \/ ChainThen
  \/ ChainCatch

Spec == Init /\ [][Next]_vars

\* Controllers whose filters() procedures make up to MaxRegistryCalls calls,
\* and whose handlers all return a promise and do nothing else: the
\* registries and handler chains of longer constructions.
NextRegistry ==
  \/ \E c \in Calls : FiltersCallWithin(MaxRegistryCalls, c.kind, c.name, c.options)
  \/ FiltersReplay
  \/ FiltersReturn
  \/ Constructed
  \/ \E a \in Actions : Dispatch(a)
  \/ InvokeHandler(FALSE, <<>>, "promise")
  \/ \E i \in 1..(MaxRegistryCalls + 1), ok \in BOOLEAN : SettleResult(i, ok)
  \/ ChainThen
  \/ ChainCatch

SpecRegistry == Init /\ [][NextRegistry]_vars

\* Controllers whose construction makes up to MaxLiveCalls DSL calls, with the
\* scheduling of the promise library: a callback of a settled promise runs
\* (the next handler of the each, the then and the catch handlers of the
\* chain), and every promise a handler returned settles. Nothing makes a
\* handler call its trigger or send the response later. A construction this
\* short has no inherited filters() procedure with a call to repeat: its
\* second run, if there is one, makes no call and returns.
NextLive ==
  \/ \E c \in Calls : FiltersCallWithin(MaxLiveCalls, c.kind, c.name, c.options)
  \/ FiltersReturn
  \/ Constructed
  \/ \E a \in Actions : Dispatch(a)
  \/ \E send \in BOOLEAN, trig \in TrigSeqs(MaxTrigger), end \in Ends :
       InvokeHandler(send, trig, end)
  \/ \E i \in 1..MaxChain, arg \in TrigArgs, inChain \in BOOLEAN :
       LateTrigger(i, arg, inChain)
  \/ \E i \in 1..MaxChain, ok \in BOOLEAN : SettleResult(i, ok)
  \/ LateSend
  \/ ChainThen
  \/ ChainCatch

Fairness ==
  /\ WF_vars(\E send \in BOOLEAN, trig \in TrigSeqs(MaxTrigger), end \in Ends :
               InvokeHandler(send, trig, end))
  /\ WF_vars(\E i \in 1..MaxChain, ok \in BOOLEAN : SettleResult(i, ok))
  /\ WF_vars(ChainThen)
  /\ WF_vars(ChainCatch)

SpecLive == Init /\ [][NextLive]_vars /\ Fairness

====
